---- MODULE Spec2Model ----
(***************************************************************************)
(* A model of the StateModel engine (src/StateModel.py) and of its client  *)
(* TemperatureFanControl (src/Group Project/TemperatureFanControl.py).     *)
(*                                                                         *)
(* Every method of the engine is an operator from the object (a record of   *)
(* its fields, with the handler calls, the log calls and the exception of   *)
(* the running call) to the object after the method; an action applies one *)
(* method to the state and stores the result.                              *)
(***************************************************************************)
EXTENDS Integers, Sequences, FiniteSets, TLC

VARIABLES
    numstates,    \* self._numstates
    running,      \* self._running
    transitions,  \* self._transitions: a list of rows, a row is None or a list of (event, state)
    curState,     \* self._curState
    debug,        \* self._debug
    events,       \* self._events: the registry, a list of names
    buttons,      \* self._buttons: the attached button objects
    timers,       \* self._timers: the attached timer objects
    attached,     \* per adapter object, what its setHandler was last given
    cancelled,    \* per timer object, whether cancel() was called on it last
    acalls,       \* the calls made on adapter objects, in order
    handler,      \* self._handler: which controller the engine calls back
    hw,           \* the fan controller's actuators: fan speeds and buzzer
    calls,        \* the handler calls made, in order
    logs,         \* the Log calls made, in order
    hist,         \* the engine calls made by the application, in order
    pc,           \* where the application is inside run(), "idle" outside
    delay         \* the delay run() was given

vars == <<numstates, running, transitions, curState, debug, events, buttons,
          timers, attached, cancelled, acalls, handler, hw, calls, logs, hist,
          pc, delay>>

(***************************************************************************)
(* Bounds of the model.                                                    *)
(***************************************************************************)
\* the largest state count given to the constructor or to setTransitionTable
MaxStates == 2
\* the largest number of (event, state) entries a transition table is grown to
MaxEntries == 2
\* the largest number of engine calls in a run of the fan controller's tests
MaxCalls == 4

(***************************************************************************)
(* Python values.                                                          *)
(***************************************************************************)
\* the value None in a cell of self._transitions
PyNone == [isNone |-> TRUE, items |-> <<>>]
\* a Python list in a cell of self._transitions
PyList(s) == [isNone |-> FALSE, items |-> s]
\* "not x" for a row: None and the empty list are falsy
Falsy(row) == row.isNone \/ row.items = <<>>
\* "x in list"
InList(x, list) == \E i \in 1..Len(list) : list[i] = x
\* list[i] of Python: a negative i counts from the end; 0 when i is out of range
\* (the 1-based position otherwise)
PyIndex(list, i) ==
    IF 0 <= i /\ i < Len(list) THEN i + 1
    ELSE IF i < 0 /\ -i <= Len(list) THEN Len(list) + i + 1
    ELSE 0

\* an exception leaves the running method: nothing after it is executed
Raise(self, e) == [self EXCEPT !.err = e]

(***************************************************************************)
(* The handler and the logger, as the engine sees them: each call is       *)
(* recorded with the value of self._curState at the time of the call.      *)
(***************************************************************************)
\* TemperatureFanControl.stateEntered, on the actuators
fanStateEntered(h, state, event) ==
    IF state = 0 THEN [h EXCEPT !.fan1 = 0, !.fan2 = 0, !.buzzer = FALSE]
    ELSE IF state = 1 THEN [h EXCEPT !.fan1 = 50]
    ELSE IF state = 2 THEN [h EXCEPT !.fan1 = 75, !.fan2 = 75]
    ELSE IF state = 3 THEN [h EXCEPT !.fan1 = 75, !.fan2 = 75, !.buzzer = FALSE]
    ELSE h

\* a stateLeft that leaves fan 2 running when state 2 is left
fanStateLeftKeepsFan2(h, state, event) ==
    LET h1 == IF state = 3 THEN [h EXCEPT !.buzzer = FALSE] ELSE h
    IN  IF state = 1 THEN [h1 EXCEPT !.fan1 = 0] ELSE h1

\* TemperatureFanControl.stateLeft, on the actuators
fanStateLeft(h, state, event) ==
    LET h1 == IF state = 3 THEN [h EXCEPT !.buzzer = FALSE] ELSE h
        h2 == IF state = 2 /\ event # "critical_temp"
              THEN [h1 EXCEPT !.fan2 = 0] ELSE h1
    IN  IF state = 1 THEN [h2 EXCEPT !.fan1 = 0] ELSE h2

\* self._handler.stateEntered, stateLeft or stateEvent: the call is recorded,
\* and the fan controller drives its actuators
HandlerCall(self, fn, state, event) ==
    LET s1 == [self EXCEPT !.calls = Append(@, [fn |-> fn, state |-> state,
                                   event |-> event, cur |-> self.curState])]
    IN  IF self.handler # "fan" THEN s1
        ELSE IF fn = "stateEntered"
        THEN [s1 EXCEPT !.hw = fanStateEntered(@, state, event)]
        ELSE IF fn = "stateLeft"
        THEN [s1 EXCEPT !.hw = fanStateLeft(@, state, event)]
        ELSE s1

LogCall(self, level) == [self EXCEPT !.logs = Append(@, level)]

(***************************************************************************)
(* The adapter objects (buttons, timers), as the engine sees them.         *)
(***************************************************************************)
\* o.setHandler(h)
setHandler(self, o, h) ==
    [self EXCEPT !.attached[o] = h, !.acalls = Append(@, <<o, "setHandler", h>>)]
\* o.cancel()
cancel(self, o) ==
    [self EXCEPT !.cancelled[o] = TRUE, !.acalls = Append(@, <<o, "cancel", "">>)]

(***************************************************************************)
(* StateModel.__init__                                                     *)
(***************************************************************************)
\* the fields __init__ sets, with the objects around the engine as they are
\* before it is used: adapters in the application's hands, actuators off
NewStateModel(n, h, dbg) ==
    [numstates   |-> n,
     running     |-> FALSE,
     transitions |-> [i \in 1..n |-> PyNone],
     curState    |-> -1,
     handler     |-> h,
     debug       |-> dbg,
     events      |-> <<"no_event">>,
     buttons     |-> <<>>,
     timers      |-> <<>>,
     attached    |-> [o \in {"B1", "B2", "T1", "T2"} |-> "app"],
     cancelled   |-> [o \in {"T1", "T2"} |-> FALSE],
     hw          |-> [fan1 |-> 0, fan2 |-> 0, buzzer |-> FALSE],
     evRet       |-> FALSE,
     acalls      |-> <<>>,
     calls       |-> <<>>,
     logs        |-> <<>>,
     err         |-> "none"]

(***************************************************************************)
(* StateModel.addTransition                                                *)
(***************************************************************************)
RECURSIVE addTransitionFrom(_, _, _, _, _)
addTransitionFrom(self, fromState, evs, toState, i) ==
    IF i > Len(evs) THEN self
    ELSE IF ~InList(evs[i], self.events) THEN Raise(self, "ValueError")
    ELSE LET k == PyIndex(self.transitions, fromState) IN
         IF k = 0 THEN Raise(self, "IndexError")
         ELSE LET s1 == IF Falsy(self.transitions[k])
                        THEN [self EXCEPT !.transitions[k] = PyList(<<>>)]
                        ELSE self
                  s2 == [s1 EXCEPT !.transitions[k].items =
                                       Append(@, <<evs[i], toState>>)]
              IN  addTransitionFrom(s2, fromState, evs, toState, i + 1)

addTransition(self, fromState, evs, toState) ==
    addTransitionFrom(self, fromState, evs, toState, 1)

(***************************************************************************)
(* StateModel.setTransitionTable                                           *)
(***************************************************************************)
setTransitionTable(self, table) ==
    LET s1 == IF Len(table) # self.numstates
              THEN LogCall([self EXCEPT !.numstates = Len(table)], "e")
              ELSE self
    IN  IF \E r \in 1..Len(table) : \E j \in 1..Len(table[r]) :
               ~InList(table[r][j][1], self.events)
        THEN Raise(s1, "ValueError")
        ELSE [s1 EXCEPT !.transitions = [r \in 1..Len(table) |-> PyList(table[r])]]

(***************************************************************************)
(* StateModel.getTransition: the destination, or the exception raised      *)
(***************************************************************************)
RECURSIVE firstMatch(_, _, _)
firstMatch(items, event, j) ==
    IF j > Len(items) THEN -1
    ELSE IF items[j][1] = event THEN items[j][2]
    ELSE firstMatch(items, event, j + 1)

getTransition(self, fromState, event) ==
    LET k == PyIndex(self.transitions, fromState) IN
    IF k = 0 THEN [err |-> "IndexError", val |-> -1]
    ELSE IF self.transitions[k].isNone THEN [err |-> "TypeError", val |-> -1]
    ELSE [err |-> "none", val |-> firstMatch(self.transitions[k].items, event, 1)]

(***************************************************************************)
(* StateModel.start                                                        *)
(***************************************************************************)
\* a start that enters the state before it sets it
startEntersFirst(self) ==
    LET s1 == HandlerCall(self, "stateEntered", self.curState, "no_event")
    IN  [s1 EXCEPT !.curState = 0, !.running = TRUE]

start(self) ==
    LET s1 == [self EXCEPT !.curState = 0, !.running = TRUE]
    IN  HandlerCall(s1, "stateEntered", s1.curState, "no_event")

(***************************************************************************)
(* StateModel.stop                                                         *)
(***************************************************************************)
RECURSIVE detachButtons(_, _)
detachButtons(self, i) ==
    IF i > Len(self.buttons) THEN self
    ELSE detachButtons(setHandler(self, self.buttons[i], "None"), i + 1)

RECURSIVE detachTimers(_, _)
detachTimers(self, i) ==
    IF i > Len(self.timers) THEN self
    ELSE detachTimers(cancel(setHandler(self, self.timers[i], "None"),
                             self.timers[i]), i + 1)

\* a stop that leaves the state whether or not the engine runs
stopAlwaysLeaves(self) ==
    LET s1 == HandlerCall(self, "stateLeft", self.curState, "no_event")
        s2 == [s1 EXCEPT !.running = FALSE]
        s3 == detachTimers(detachButtons(s2, 1), 1)
    IN  [s3 EXCEPT !.curState = -1]

stop(self) ==
    LET s1 == IF self.running
              THEN HandlerCall(self, "stateLeft", self.curState, "no_event")
              ELSE self
        s2 == [s1 EXCEPT !.running = FALSE]
        s3 == detachTimers(detachButtons(s2, 1), 1)
    IN  [s3 EXCEPT !.curState = -1]

(***************************************************************************)
(* StateModel.gotoState                                                    *)
(***************************************************************************)
\* a gotoState that sets the new state before it leaves the old one
gotoStateSetsFirst(self, newState, event) ==
    IF newState < self.numstates
    THEN LET s0 == IF self.debug THEN LogCall(self, "d") ELSE self
             s1 == [s0 EXCEPT !.curState = newState]
             s2 == HandlerCall(s1, "stateLeft", self.curState, event)
         IN  HandlerCall(s2, "stateEntered", s2.curState, event)
    ELSE self

\* a gotoState that refuses the last state
gotoStateOffByOne(self, newState, event) ==
    IF newState < self.numstates - 1
    THEN LET s0 == IF self.debug THEN LogCall(self, "d") ELSE self
             s1 == HandlerCall(s0, "stateLeft", s0.curState, event)
             s2 == [s1 EXCEPT !.curState = newState]
         IN  HandlerCall(s2, "stateEntered", s2.curState, event)
    ELSE self

\* a gotoState that enters the new state without leaving the old one
gotoStateEntersOnly(self, newState, event) ==
    IF newState < self.numstates
    THEN LET s0 == IF self.debug THEN LogCall(self, "d") ELSE self
             s2 == [s0 EXCEPT !.curState = newState]
         IN  HandlerCall(s2, "stateEntered", s2.curState, event)
    ELSE self

gotoState(self, newState, event) ==
    IF newState < self.numstates
    THEN LET s0 == IF self.debug THEN LogCall(self, "d") ELSE self
             s1 == HandlerCall(s0, "stateLeft", s0.curState, event)
             s2 == [s1 EXCEPT !.curState = newState]
         IN  HandlerCall(s2, "stateEntered", s2.curState, event)
    ELSE self

(***************************************************************************)
(* StateModel.processEvent                                                 *)
(***************************************************************************)
\* a processEvent that ignores an unregistered event instead of raising
processEventNoRaise(self, event) ==
    LET newstate == IF InList(event, self.events)
                    THEN getTransition(self, self.curState, event)
                    ELSE [err |-> "none", val |-> 0]
    IN  IF newstate.err # "none" THEN Raise(self, newstate.err)
        ELSE IF newstate.val >= 0
        THEN gotoState(IF self.debug THEN LogCall(self, "d") ELSE self,
                       newstate.val, event)
        ELSE IF self.debug /\ event # "no_event"
        THEN LET s1 == HandlerCall(self, "stateEvent", self.curState, event)
             IN  IF ~self.evRet THEN LogCall(s1, "d") ELSE s1
        ELSE self

\* a processEvent that gives the event to the handler's stateEvent before it
\* looks for a transition
processEventInStateFirst(self, event) ==
    IF InList(event, self.events)
    THEN LET newstate == getTransition(self, self.curState, event)
             s0 == IF self.debug /\ event # "no_event"
                   THEN HandlerCall(self, "stateEvent", self.curState, event)
                   ELSE self
         IN  IF newstate.err # "none" THEN Raise(self, newstate.err)
             ELSE IF newstate.val >= 0
             THEN gotoState(IF self.debug THEN LogCall(s0, "d") ELSE s0,
                            newstate.val, event)
             ELSE IF self.debug /\ event # "no_event" /\ ~self.evRet
             THEN LogCall(s0, "d")
             ELSE s0
    ELSE Raise(self, "ValueError")

\* a processEvent that treats "no_event" as any other event without transition
processEventNoEventToo(self, event) ==
    IF InList(event, self.events)
    THEN LET newstate == getTransition(self, self.curState, event) IN
         IF newstate.err # "none" THEN Raise(self, newstate.err)
         ELSE IF newstate.val >= 0
         THEN gotoState(IF self.debug THEN LogCall(self, "d") ELSE self,
                        newstate.val, event)
         ELSE IF self.debug
         THEN LET s1 == HandlerCall(self, "stateEvent", self.curState, event)
              IN  IF ~self.evRet THEN LogCall(s1, "d") ELSE s1
         ELSE self
    ELSE Raise(self, "ValueError")

processEvent(self, event) ==
    IF InList(event, self.events)
    THEN LET newstate == getTransition(self, self.curState, event) IN
         IF newstate.err # "none" THEN Raise(self, newstate.err)
         ELSE IF newstate.val >= 0
         THEN gotoState(IF self.debug THEN LogCall(self, "d") ELSE self,
                        newstate.val, event)
         ELSE IF self.debug /\ event # "no_event"
         THEN LET s1 == HandlerCall(self, "stateEvent", self.curState, event)
              IN  IF ~self.evRet THEN LogCall(s1, "d") ELSE s1
         ELSE self
    ELSE Raise(self, "ValueError")

(***************************************************************************)
(* The adapter objects the application owns: two buttons and two timers.   *)
(* Two objects of a kind bear the same name, so that the second one added  *)
(* collides with the first.                                                *)
(***************************************************************************)
Buttons == {"B1", "B2"}
Timers == {"T1", "T2"}
\* btn._name, timer._name
NameOf(o) == IF o \in Buttons THEN "b" ELSE "t"
\* type(timer).__name__
TypeOf(o) == IF o = "T1" THEN "SoftwareTimer" ELSE "HardwareTimer"

(***************************************************************************)
(* StateModel.addButton                                                    *)
(***************************************************************************)
\* an addButton that looks for the press name only
addButtonChecksPress(self, btn) ==
    LET event1 == NameOf(btn) \o "_press"
        event2 == NameOf(btn) \o "_release"
    IN  IF InList(event1, self.events)
        THEN Raise(self, "ValueError")
        ELSE LET s1 == [self EXCEPT !.events = Append(Append(@, event1), event2)]
                 s2 == setHandler(s1, btn, "model")
             IN  [s2 EXCEPT !.buttons = Append(@, btn)]

addButton(self, btn) ==
    LET event1 == NameOf(btn) \o "_press"
        event2 == NameOf(btn) \o "_release"
    IN  IF InList(event1, self.events) \/ InList(event2, self.events)
        THEN Raise(self, "ValueError")
        ELSE LET s1 == [self EXCEPT !.events = Append(Append(@, event1), event2)]
                 s2 == setHandler(s1, btn, "model")
             IN  [s2 EXCEPT !.buttons = Append(@, btn)]

(***************************************************************************)
(* StateModel.addTimer                                                     *)
(***************************************************************************)
addTimer(self, timer) ==
    LET eventname == NameOf(timer) \o "_timeout"
    IN  IF InList(eventname, self.events)
        THEN Raise(self, "ValueError")
        ELSE LET s1 == [self EXCEPT !.events = Append(@, eventname)]
                 s2 == setHandler(s1, timer, "model")
             IN  [s2 EXCEPT !.timers = Append(@, timer)]

(***************************************************************************)
(* StateModel.addCustomEvent                                               *)
(***************************************************************************)
\* an addCustomEvent that registers the name without looking for it
addCustomEventUnchecked(self, event) ==
    [self EXCEPT !.events = Append(@, event)]

addCustomEvent(self, event) ==
    IF InList(event, self.events)
    THEN Raise(self, "ValueError")
    ELSE [self EXCEPT !.events = Append(@, event)]

(***************************************************************************)
(* StateModel.buttonPressed, buttonReleased, timeout                       *)
(***************************************************************************)
buttonPressed(self, name) == processEvent(self, name \o "_press")

buttonReleased(self, name) == processEvent(self, name \o "_release")

timeout(self, name) == processEvent(self, name \o "_timeout")

(***************************************************************************)
(* The state as the object the methods work on, and back.                  *)
(***************************************************************************)
Self ==
    [numstates |-> numstates, running |-> running, transitions |-> transitions,
     curState |-> curState, debug |-> debug, events |-> events,
     buttons |-> buttons, timers |-> timers, attached |-> attached,
     cancelled |-> cancelled, handler |-> handler, hw |-> hw,
     evRet |-> FALSE, acalls |-> <<>>, calls |-> <<>>, logs |-> <<>>,
     err |-> "none"]

\* the same, with a handler whose stateEvent returns ret
SelfRet(ret) == [Self EXCEPT !.evRet = ret]

\* the object, with the handler calls made so far
SelfKeep == [Self EXCEPT !.calls = calls]

\* the record of one engine call: what was called with what, on which state,
\* how it ended and which parts of the object it changed
\* the names a call would add to the registry, given the name handed to it
Registers(op, name) ==
    IF op = "addButton" THEN {name \o "_press", name \o "_release"}
    ELSE IF op = "addTimer" THEN {name \o "_timeout"}
    ELSE {name}

Call(op, event, arg, r) ==
    [op |-> op, event |-> event, arg |-> arg, err |-> r.err,
     preState |-> curState, preRunning |-> running, preNum |-> numstates,
     known |-> \E n \in Registers(op, event) : InList(n, events),
     found |-> IF op = "processEvent" /\ InList(event, events)
               THEN getTransition(Self, curState, event)
               ELSE [err |-> "none", val |-> -1],
     sameNum |-> (r.numstates = numstates),
     sameTable |-> (r.transitions = transitions),
     sameEvents |-> (r.events = events),
     sameAdapters |-> (r.buttons = buttons /\ r.timers = timers
                        /\ r.attached = attached /\ r.cancelled = cancelled)]

Store(r) ==
    /\ numstates' = r.numstates
    /\ running' = r.running
    /\ transitions' = r.transitions
    /\ curState' = r.curState
    /\ debug' = r.debug
    /\ events' = r.events
    /\ buttons' = r.buttons
    /\ timers' = r.timers
    /\ attached' = r.attached
    /\ cancelled' = r.cancelled
    /\ acalls' = r.acalls
    /\ handler' = r.handler
    /\ hw' = r.hw
    /\ calls' = r.calls
    /\ logs' = r.logs

\* one call of the application on the engine: the calls and logs kept are
\* those of this call
Commit(r, call) == Store(r) /\ hist' = <<call>> /\ UNCHANGED <<pc, delay>>

\* the last engine call
Last == hist[Len(hist)]
Called(op) == hist # <<>> /\ Last.op = op

\* the number of (event, state) entries of the table
RECURSIVE Entries(_)
Entries(t) ==
    IF t = <<>> THEN 0 ELSE Len(Head(t).items) + Entries(Tail(t))

(***************************************************************************)
(* Spec: an application that calls the engine's methods one after another, *)
(* in any order, from outside run() (pc = "idle"), with a handler that     *)
(* records the calls it receives.                                          *)
(***************************************************************************)
\* the names the application registers as custom events
CustomNames == {"a"}
\* the names it gives to processEvent: reserved, registered once added, never
\* registered
EventNames == {"no_event", "a", "zz"}
\* its calls of addTransition, as (fromState, events, toState): a ring on "a",
\* a way back from the last state on "no_event", and a list whose second name
\* is not registered
TransitionCalls ==
    {<<f, <<"a">>, (f + 1) % MaxStates>> : f \in 0..MaxStates - 1}
    \cup {<<MaxStates - 1, <<"no_event">>, 0>>, <<0, <<"a", "zz">>, 0>>}
\* the tables it gives to setTransitionTable: a ring on "a" of 1..MaxStates
\* rows, a table of empty rows, and rings whose first event is not registered
Ring(n, e) ==
    [r \in 1..n |-> << <<(IF r = 1 THEN e ELSE "a"), r % n>> >>]
Tables ==
    {Ring(n, "a") : n \in 1..MaxStates}
    \cup {[r \in 1..MaxStates |-> <<>>], Ring(1, "zz"), Ring(MaxStates, "zz")}
\* its calls of gotoState, as (newState, event): every state, one below the
\* first and one above the last
GotoCalls == {<<t, "no_event">> : t \in -1..MaxStates} \cup {<<0, "a">>}

\* the state is the object r, the application has called nothing yet
Load(r) ==
    /\ numstates = r.numstates
    /\ running = r.running
    /\ transitions = r.transitions
    /\ curState = r.curState
    /\ debug = r.debug
    /\ events = r.events
    /\ buttons = r.buttons
    /\ timers = r.timers
    /\ attached = r.attached
    /\ cancelled = r.cancelled
    /\ acalls = r.acalls
    /\ handler = r.handler
    /\ hw = r.hw
    /\ calls = r.calls
    /\ logs = r.logs
    /\ hist = <<>>
    /\ pc = "idle"
    /\ delay = 0

InitEngine(n, dbg) == Load(NewStateModel(n, "recorder", dbg))

Init == \E n \in 1..MaxStates : \E dbg \in BOOLEAN : InitEngine(n, dbg)

AddCustomEvent(name) ==
    /\ pc = "idle"
    /\ LET r == addCustomEvent(Self, name)
       IN  Commit(r, Call("addCustomEvent", name, "", r))

AddTransition(fromState, evs, toState) ==
    /\ Entries(transitions) + Len(evs) <= MaxEntries
    /\ LET r == addTransition(Self, fromState, evs, toState)
       IN  Commit(r, Call("addTransition", evs[Len(evs)], fromState, r))

\* the event names of the table that are not in the registry
Unregistered(table) ==
    {e \in UNION {{table[r][j][1] : j \in 1..Len(table[r])} :
                      r \in 1..Len(table)} : ~InList(e, events)}

\* the call record keeps one unregistered name of the table, if it has any
SetTransitionTable(table) ==
    /\ pc = "idle"
    /\ LET r == setTransitionTable(Self, table)
           e == IF Unregistered(table) = {} THEN ""
                ELSE CHOOSE x \in Unregistered(table) : TRUE
       IN  Commit(r, Call("setTransitionTable", e, Len(table), r))

Start ==
    /\ ~running
    /\ LET r == start(Self) IN Commit(r, Call("start", "", 0, r))

Stop ==
    /\ pc = "idle"
    /\ LET r == stop(Self) IN Commit(r, Call("stop", "", 0, r))

GotoState(newState, event) ==
    /\ pc = "idle"
    /\ LET r == gotoState(Self, newState, event)
       IN  Commit(r, Call("gotoState", event, newState, r))

ProcessEvent(event, ret) ==
    /\ pc = "idle"
    /\ LET r == processEvent(SelfRet(ret), event)
       IN  Commit(r, Call("processEvent", event, 0, r))

Next ==
    \/ \E name \in CustomNames : AddCustomEvent(name)
    \/ \E c \in TransitionCalls : AddTransition(c[1], c[2], c[3])
    \/ \E table \in Tables : SetTransitionTable(table)
    \/ Start
    \/ Stop
    \/ \E c \in GotoCalls : GotoState(c[1], c[2])
    \/ \E e \in EventNames : \E ret \in BOOLEAN : ProcessEvent(e, ret)

Spec == Init /\ [][Next]_vars

(***************************************************************************)
(* TableSpec: the setup of an application that registers a custom event    *)
(* and builds its table by addTransition calls alone.                      *)
(***************************************************************************)
\* its calls of addTransition: any state to any state, on a custom event or on
\* "no_event"
TableCalls ==
    {<<f, <<e>>, t>> : f \in 0..MaxStates - 1, e \in {"a", "no_event"},
                      t \in 0..MaxStates - 1}

TableNext ==
    \/ \E name \in CustomNames : AddCustomEvent(name)
    \/ \E c \in TableCalls : AddTransition(c[1], c[2], c[3])

TableSpec == Init /\ [][TableNext]_vars

\* the rows of the table, as the matrix a caller of setTransitionTable writes:
\* a state without transitions is an empty row
RowsOf(table) == [r \in 1..Len(table) |-> table[r].items]

\* the object with its table replaced by one setTransitionTable call
SetAtOnce == setTransitionTable(Self, RowsOf(transitions))

(***************************************************************************)
(* RegSpec: an application that attaches buttons and timers and registers  *)
(* custom events in any order, starts and stops the engine, and whose      *)
(* attached buttons and timers deliver their events.                       *)
(***************************************************************************)
\* the custom names it registers: one of its own and two that a button or a
\* timer composes
RegCustomNames == {"c", "b_release", "t_timeout"}
\* its calls of addTransition
RegTransitionCalls == {<<0, <<"b_press">>, 1>>, <<1, <<"t_timeout">>, 0>>}

RegInit == \E dbg \in BOOLEAN : InitEngine(MaxStates, dbg)

\* the adapter object is kept in the call record's arg
AddButton(btn) ==
    /\ pc = "idle"
    /\ LET r == addButton(Self, btn)
       IN  Commit(r, Call("addButton", NameOf(btn), btn, r))

AddTimer(timer) ==
    /\ pc = "idle"
    /\ LET r == addTimer(Self, timer)
       IN  Commit(r, Call("addTimer", NameOf(timer), timer, r))

RegAddCustomEvent(name) ==
    /\ pc = "idle"
    /\ LET r == addCustomEvent(Self, name)
       IN  Commit(r, Call("addCustomEvent", name, "", r))

\* a button whose handler is the engine delivers an edge
ButtonPressed(btn, ret) ==
    /\ attached[btn] = "model"
    /\ LET r == buttonPressed(SelfRet(ret), NameOf(btn))
       IN  Commit(r, Call("buttonPressed", NameOf(btn) \o "_press", btn, r))

ButtonReleased(btn, ret) ==
    /\ attached[btn] = "model"
    /\ LET r == buttonReleased(SelfRet(ret), NameOf(btn))
       IN  Commit(r, Call("buttonReleased", NameOf(btn) \o "_release", btn, r))

\* a timer whose handler is the engine, and that was not cancelled, expires
Timeout(timer, ret) ==
    /\ attached[timer] = "model"
    /\ ~cancelled[timer]
    /\ LET r == timeout(SelfRet(ret), NameOf(timer))
       IN  Commit(r, Call("timeout", NameOf(timer) \o "_timeout", timer, r))

RegNext ==
    \/ \E btn \in Buttons : AddButton(btn)
    \/ \E timer \in Timers : AddTimer(timer)
    \/ \E name \in RegCustomNames : RegAddCustomEvent(name)
    \/ \E c \in RegTransitionCalls : AddTransition(c[1], c[2], c[3])
    \/ Start
    \/ Stop
    \/ \E btn \in Buttons : \E ret \in BOOLEAN : ButtonPressed(btn, ret)
    \/ \E btn \in Buttons : \E ret \in BOOLEAN : ButtonReleased(btn, ret)
    \/ \E timer \in Timers : \E ret \in BOOLEAN : Timeout(timer, ret)

RegSpec == RegInit /\ [][RegNext]_vars

(***************************************************************************)
(* FanSpec: the fan controller as its constructor leaves it, driven by a   *)
(* test that starts the engine and then gives it events one by one; the    *)
(* handler calls and the engine calls are kept from the first one on.      *)
(***************************************************************************)
\* TemperatureFanControl.__init__: the engine, its events and its table
TemperatureFanControl ==
    LET m0 == NewStateModel(4, "fan", TRUE)
        m1 == addCustomEvent(m0, "fan1_on")
        m2 == addCustomEvent(m1, "both_fans_on")
        m3 == addCustomEvent(m2, "critical_temp")
        m4 == addCustomEvent(m3, "temp_drop")
        m5 == addTransition(m4, 0, <<"fan1_on">>, 1)
        m6 == addTransition(m5, 1, <<"both_fans_on">>, 2)
        m7 == addTransition(m6, 2, <<"critical_temp">>, 3)
        m8 == addTransition(m7, 3, <<"temp_drop">>, 2)
        m9 == addTransition(m8, 2, <<"temp_drop">>, 1)
    IN  addTransition(m9, 1, <<"temp_drop">>, 0)

FanEvents == {"fan1_on", "both_fans_on", "critical_temp", "temp_drop"}

\* one more call of the test on the engine
Record(r, call) ==
    Store(r) /\ hist' = Append(hist, call) /\ UNCHANGED <<pc, delay>>

FanInit == Load(TemperatureFanControl)

FanStart ==
    /\ Len(hist) < MaxCalls
    /\ ~running
    /\ LET r == start(SelfKeep) IN Record(r, Call("start", "", 0, r))

FanProcessEvent(event) ==
    /\ Len(hist) < MaxCalls
    /\ LET r == processEvent(SelfKeep, event)
       IN  Record(r, Call("processEvent", event, 0, r))

FanNext ==
    \/ FanStart
    \/ \E e \in FanEvents : FanProcessEvent(e)

FanSpec == FanInit /\ [][FanNext]_vars

(***************************************************************************)
(* StateModel.run, statement by statement. The handler's stateDo is one    *)
(* that records the call and then, as the application wrote it, calls back *)
(* into the engine or does not.                                            *)
(***************************************************************************)
\* what a stateDo of the application does after it was called
DoActs == {"none", "stop", "event", "goto"}

\* self._handler.stateDo(self._curState)
stateDo(self, act) ==
    LET s1 == [self EXCEPT !.calls = Append(@, [fn |-> "stateDo",
                   state |-> self.curState, event |-> "", cur |-> self.curState])]
    IN  IF act = "stop" THEN stop(s1)
        ELSE IF act = "event" THEN processEvent(s1, "a")
        ELSE IF act = "goto" THEN gotoState(s1, 0, "no_event")
        ELSE s1

\* timer.check() of a software timer: a timer that is due, still has the
\* engine as its handler and was not cancelled calls timeout(name)
check(self, timer, due) ==
    IF due /\ self.attached[timer] = "model" /\ ~self.cancelled[timer]
    THEN timeout(self, NameOf(timer))
    ELSE self

\* the loop over self._timers
RECURSIVE checkTimers(_, _, _)
checkTimers(self, due, i) ==
    IF i > Len(self.timers) \/ self.err # "none" THEN self
    ELSE checkTimers(IF TypeOf(self.timers[i]) = "SoftwareTimer"
                     THEN check(self, self.timers[i], due)
                     ELSE self, due, i + 1)

\* a run() that processes "no_event" only after it slept
runNextInsideSleep(at, self, d) ==
    IF self.err # "none" THEN "raised"
    ELSE IF at = "run" THEN "while"
    ELSE IF at = "while" THEN (IF self.running THEN "stateDo" ELSE "returned")
    ELSE IF at = "stateDo" THEN "timers"
    ELSE IF at = "timers" THEN (IF d > 0 THEN "sleep" ELSE "while")
    ELSE IF at = "sleep" THEN "no_event"
    ELSE "while"

\* the statement of run() that follows the statement at, which left self
runNext(at, self, d) ==
    IF self.err # "none" THEN "raised"
    ELSE IF at = "run" THEN "while"
    ELSE IF at = "while" THEN (IF self.running THEN "stateDo" ELSE "returned")
    ELSE IF at = "stateDo" THEN "timers"
    ELSE IF at = "timers" THEN (IF d > 0 THEN "sleep" ELSE "no_event")
    ELSE IF at = "sleep" THEN "no_event"
    ELSE "while"

(***************************************************************************)
(* RunSpec: an application that sets its engine up (a custom event "a", a  *)
(* software timer, a chain of transitions) and calls run().                *)
(***************************************************************************)
\* the delays the application gives to run(): none, or some
Delays == {0, 1}

\* addTransition(f, ["a"], f + 1) for every state f but the last
RECURSIVE chain(_, _)
chain(self, f) ==
    IF f >= self.numstates - 1 THEN self
    ELSE chain(addTransition(self, f, <<"a">>, f + 1), f + 1)

\* the setup: with every state given a row, or with the last state left
\* without one
RunSetup(dbg, full) ==
    LET m0 == NewStateModel(MaxStates, "recorder", dbg)
        m1 == addTimer(addCustomEvent(m0, "a"), "T1")
        m2 == chain(m1, 0)
        m3 == addTransition(m2, MaxStates - 1, <<"no_event">>, 0)
    IN  IF full THEN m3 ELSE m2

RunInit == \E dbg \in BOOLEAN : \E full \in BOOLEAN : Load(RunSetup(dbg, full))

\* a statement of run(): the engine calls of the iteration are kept
Step(at, r, d, call) ==
    /\ Store(r)
    /\ hist' = Append(hist, call)
    /\ pc' = runNext(at, r, d)
    /\ delay' = d

Run(d) ==
    /\ pc = "idle"
    /\ LET r == start(Self) IN Step("run", r, d, Call("run", "", d, r))

\* the loop condition: a new iteration starts, or run() returns
RunWhile ==
    /\ pc = "while"
    /\ Store(Self)
    /\ hist' = <<Call("while", "", 0, Self)>>
    /\ pc' = runNext("while", Self, delay)
    /\ delay' = delay

RunStateDo(act) ==
    /\ pc = "stateDo"
    /\ LET r == stateDo(SelfKeep, act)
       IN  Step("stateDo", r, delay, Call("stateDo", "", 0, r))

RunTimers(due) ==
    /\ pc = "timers"
    /\ LET r == checkTimers(SelfKeep, due, 1)
       IN  Step("timers", r, delay, Call("timers", "", 0, r))

RunSleep ==
    /\ pc = "sleep"
    /\ Step("sleep", SelfKeep, delay, Call("sleep", "", delay, SelfKeep))

RunNoEvent ==
    /\ pc = "no_event"
    /\ LET r == processEvent(SelfKeep, "no_event")
       IN  Step("no_event", r, delay, Call("processEvent", "no_event", 0, r))

RunNext ==
    \/ \E d \in Delays : Run(d)
    \/ RunWhile
    \/ \E act \in DoActs : RunStateDo(act)
    \/ \E due \in BOOLEAN : RunTimers(due)
    \/ RunSleep
    \/ RunNoEvent

RunSpec == RunInit /\ [][RunNext]_vars

(***************************************************************************)
(* AsyncSpec: an application with a button and a hardware timer attached,  *)
(* whose main thread is in run(). The loop's processEvent("no_event") is   *)
(* taken statement by statement through gotoState; the button's and the    *)
(* timer's callbacks (buttonPressed, buttonReleased, timeout) come as      *)
(* interrupts: each runs to its end, between any two statements of the     *)
(* main thread. The engine takes no lock and masks no interrupt. The       *)
(* handler calls are kept from start() on.                                 *)
(***************************************************************************)
\* addTransition(f, ["no_event", "b_press"], f + 1) for every state f but the
\* last
RECURSIVE steps(_, _)
steps(self, f) ==
    IF f >= self.numstates - 1 THEN self
    ELSE steps(addTransition(self, f, <<"no_event", "b_press">>, f + 1), f + 1)

\* the setup: the loop and the button step forward, the timer steps back from
\* the last state
AsyncSetup(dbg) ==
    LET m0 == NewStateModel(MaxStates, "recorder", dbg)
        m1 == addTimer(addButton(m0, "B1"), "T2")
        m2 == steps(m1, 0)
    IN  addTransition(m2, MaxStates - 1, <<"t_timeout">>, 0)

AsyncInit == \E dbg \in BOOLEAN : Load(AsyncSetup(dbg))

\* run(): self.start(), then the loop
AsyncRun ==
    /\ pc = "idle"
    /\ LET r == start(Self)
       IN  /\ Store(r)
           /\ hist' = <<Call("run", "", 0, r)>>
           /\ pc' = "loop"
           /\ delay' = delay

\* the loop's processEvent("no_event") up to the first handler call: the
\* lookup for the state the engine is in, whose result is the call's local
\* newstate (kept in the call record as found), and gotoState's test
LoopNoEvent ==
    /\ pc = "loop"
    /\ running
    /\ Len(calls) < MaxCalls
    /\ LET newstate == getTransition(Self, curState, "no_event")
           goes == newstate.err = "none" /\ newstate.val >= 0
                   /\ newstate.val < numstates
           r == IF newstate.err # "none" THEN Raise(SelfKeep, newstate.err)
                ELSE IF goes /\ debug THEN LogCall(LogCall(SelfKeep, "d"), "d")
                ELSE IF newstate.val >= 0 /\ debug THEN LogCall(SelfKeep, "d")
                ELSE SelfKeep
       IN  /\ Store(r)
           /\ hist' = <<Call("processEvent", "no_event", 0, r)>>
           /\ pc' = IF newstate.err # "none" THEN "raised"
                    ELSE IF goes THEN "leave" ELSE "loop"
           /\ delay' = delay

\* gotoState: self._handler.stateLeft(self._curState, event)
GotoLeave ==
    /\ pc = "leave"
    /\ Store(HandlerCall(SelfKeep, "stateLeft", curState, Last.event))
    /\ pc' = "assign"
    /\ UNCHANGED <<hist, delay>>

\* gotoState: self._curState = newState
GotoAssign ==
    /\ pc = "assign"
    /\ Store([SelfKeep EXCEPT !.curState = Last.found.val])
    /\ pc' = "enter"
    /\ UNCHANGED <<hist, delay>>

\* gotoState: self._handler.stateEntered(self._curState, event)
GotoEnter ==
    /\ pc = "enter"
    /\ Store(HandlerCall(SelfKeep, "stateEntered", curState, Last.event))
    /\ pc' = "loop"
    /\ UNCHANGED <<hist, delay>>

\* the main thread is in run(), between two statements
Interruptible == pc \in {"loop", "leave", "assign", "enter"}

\* an interrupt: the callback runs to its end on the object as it is
Irq(r) == Store(r) /\ UNCHANGED <<hist, pc, delay>>

IrqButtonPressed(btn, ret) ==
    /\ Interruptible
    /\ Len(calls) < MaxCalls
    /\ attached[btn] = "model"
    /\ Irq(buttonPressed([SelfKeep EXCEPT !.evRet = ret], NameOf(btn)))

IrqButtonReleased(btn, ret) ==
    /\ Interruptible
    /\ Len(calls) < MaxCalls
    /\ attached[btn] = "model"
    /\ Irq(buttonReleased([SelfKeep EXCEPT !.evRet = ret], NameOf(btn)))

IrqTimeout(timer, ret) ==
    /\ Interruptible
    /\ Len(calls) < MaxCalls
    /\ attached[timer] = "model"
    /\ ~cancelled[timer]
    /\ Irq(timeout([SelfKeep EXCEPT !.evRet = ret], NameOf(timer)))

AsyncNext ==
    \/ AsyncRun
    \/ LoopNoEvent
    \/ GotoLeave
    \/ GotoAssign
    \/ GotoEnter
    \/ \E ret \in BOOLEAN : IrqButtonPressed("B1", ret)
    \/ \E ret \in BOOLEAN : IrqButtonReleased("B1", ret)
    \/ \E ret \in BOOLEAN : IrqTimeout("T2", ret)

AsyncSpec == AsyncInit /\ [][AsyncNext]_vars

(***************************************************************************)
(* FanRunSpec: the fan controller's program, controller.run(): the engine's *)
(* run() with the controller as handler, whose stateDo sounds the hazard   *)
(* pattern in state 3 and then calls update_system. update_system is taken *)
(* loop iteration by loop iteration. The handler calls kept are those of   *)
(* the current iteration of run(); hist holds the update_system call and   *)
(* after it one processEvent call per loop iteration.                      *)
(***************************************************************************)
FAN1_THRESHOLD == 30
FAN2_THRESHOLD == 40
CRITICAL_THRESHOLD == 50

\* what read_temperature returns: the default of a failed reading (25) and
\* the readings next to each threshold
Temperatures == {25, 29, 30, 39, 40, 49, 50, 51}

\* a desired state that takes a reading on a threshold for the band below
desired_stateStrict(temperature) ==
    IF temperature > CRITICAL_THRESHOLD THEN 3
    ELSE IF temperature > FAN2_THRESHOLD THEN 2
    ELSE IF temperature > FAN1_THRESHOLD THEN 1
    ELSE 0

\* update_system: the desired state of a reading
desired_state(temperature) ==
    IF temperature >= CRITICAL_THRESHOLD THEN 3
    ELSE IF temperature >= FAN2_THRESHOLD THEN 2
    ELSE IF temperature >= FAN1_THRESHOLD THEN 1
    ELSE 0

\* an upward loop that gives state 2 the event of state 1
upEventRepeats(current_state) ==
    IF current_state = 0 THEN "fan1_on"
    ELSE IF current_state = 1 THEN "both_fans_on"
    ELSE IF current_state = 2 THEN "both_fans_on"
    ELSE ""

\* update_system, the upward loop: the event it processes in current_state,
\* "" where no branch of the if matches
upEvent(current_state) ==
    IF current_state = 0 THEN "fan1_on"
    ELSE IF current_state = 1 THEN "both_fans_on"
    ELSE IF current_state = 2 THEN "critical_temp"
    ELSE ""

\* the body of the upward loop
upward(self, current_state) ==
    IF upEvent(current_state) = "" THEN self
    ELSE processEvent(self, upEvent(current_state))

\* warning_beep: the buzzer plays or stops, by the time of the call
warning_beep(self, plays) == [self EXCEPT !.hw.buzzer = plays]

\* a statement of the program: the state after it, the calls of the running
\* update_system, the next statement
FanStep(r, h, at) ==
    /\ Store(r)
    /\ hist' = h
    /\ pc' = IF r.err # "none" THEN "raised" ELSE at
    /\ delay' = delay

\* run(): self.start()
FanRun ==
    /\ pc = "idle"
    /\ LET r == start(Self) IN FanStep(r, <<Call("run", "", 0, r)>>, "while")

\* run(): while self._running
FanWhile ==
    /\ pc = "while"
    /\ FanStep(SelfKeep, hist, IF running THEN "stateDo" ELSE "returned")

\* run(): self._handler.stateDo(self._curState), up to its update_system call
FanStateDo(plays) ==
    /\ pc = "stateDo"
    /\ LET s1 == [Self EXCEPT !.calls = <<[fn |-> "stateDo", state |-> curState,
                                           event |-> "", cur |-> curState]>>]
           r == IF curState = 3 THEN warning_beep(s1, plays) ELSE s1
       IN  FanStep(r, <<Call("stateDo", "", 0, r)>>, "update")

\* update_system, up to its loops: the reading, the desired state (that of
\* the call record's reading) and current_state, which is read from
\* _curState here and again after every processEvent of the loops
FanUpdateSystem(temperature) ==
    /\ pc = "update"
    /\ FanStep(SelfKeep,
               <<Call("update_system", "", temperature, SelfKeep)>>, "up")

\* an iteration of `while current_state < desired_state`
FanUpward ==
    /\ pc = "up"
    /\ curState < desired_state(hist[1].arg)
    /\ LET r == upward(SelfKeep, curState)
       IN  FanStep(r, Append(hist, Call("processEvent", upEvent(curState), 0, r)),
                   "up")

FanUpwardDone ==
    /\ pc = "up"
    /\ ~(curState < desired_state(hist[1].arg))
    /\ FanStep(SelfKeep, hist, "down")

\* an iteration of `while current_state > desired_state`
FanDownward ==
    /\ pc = "down"
    /\ curState > desired_state(hist[1].arg)
    /\ LET r == processEvent(SelfKeep, "temp_drop")
       IN  FanStep(r, Append(hist, Call("processEvent", "temp_drop", 0, r)),
                   "down")

\* update_system and stateDo return
FanDownwardDone ==
    /\ pc = "down"
    /\ ~(curState > desired_state(hist[1].arg))
    /\ FanStep(SelfKeep, hist, "no_event")

\* run(): no timer to check, the sleep, self.processEvent("no_event")
FanNoEvent ==
    /\ pc = "no_event"
    /\ LET r == processEvent(SelfKeep, "no_event")
       IN  FanStep(r, Append(hist, Call("processEvent", "no_event", 0, r)),
                   "while")

FanRunNext ==
    \/ FanRun
    \/ FanWhile
    \/ \E plays \in BOOLEAN : FanStateDo(plays)
    \/ \E temperature \in Temperatures : FanUpdateSystem(temperature)
    \/ FanUpward
    \/ FanUpwardDone
    \/ FanDownward
    \/ FanDownwardDone
    \/ FanNoEvent

FanRunSpec == FanInit /\ [][FanRunNext]_vars

(***************************************************************************)
(* SeqSpec: an application that uses the engine from one thread, outside   *)
(* run(): it sets the engine up, calls start(), then processEvent and      *)
(* gotoState to states of the engine in any order, then stop(). Its        *)
(* handler records the calls and calls nothing back; the handler calls are *)
(* kept from start() on.                                                   *)
(***************************************************************************)
SeqInit == \E dbg \in BOOLEAN : \E full \in BOOLEAN : Load(RunSetup(dbg, full))

\* one more call of the application: the handler calls add up
SeqCall(r, call, at) ==
    /\ Store(r)
    /\ hist' = <<call>>
    /\ pc' = at
    /\ delay' = delay

SeqStart ==
    /\ pc = "idle"
    /\ LET r == start(SelfKeep)
       IN  SeqCall(r, Call("start", "", 0, r), "started")

SeqProcessEvent(event, ret) ==
    /\ pc = "started"
    /\ Len(calls) < MaxCalls
    /\ LET r == processEvent([SelfKeep EXCEPT !.evRet = ret], event)
       IN  SeqCall(r, Call("processEvent", event, 0, r), "started")

\* gotoState to a state of the engine
SeqGotoState(newState) ==
    /\ pc = "started"
    /\ Len(calls) < MaxCalls
    /\ LET r == gotoState(SelfKeep, newState, "no_event")
       IN  SeqCall(r, Call("gotoState", "no_event", newState, r), "started")

SeqStop ==
    /\ pc = "started"
    /\ LET r == stop(SelfKeep) IN SeqCall(r, Call("stop", "", 0, r), "stopped")

SeqNext ==
    \/ SeqStart
    \/ \E e \in EventNames : \E ret \in BOOLEAN : SeqProcessEvent(e, ret)
    \/ \E t \in 0..MaxStates - 1 : SeqGotoState(t)
    \/ SeqStop

SeqSpec == SeqInit /\ [][SeqNext]_vars

(***************************************************************************)
(* The handler calls of a transition from s to t on e, as recorded.        *)
(***************************************************************************)
Left(s, e) == [fn |-> "stateLeft", state |-> s, event |-> e, cur |-> s]
Entered(t, e) == [fn |-> "stateEntered", state |-> t, event |-> e, cur |-> t]
InState(s, e) == [fn |-> "stateEvent", state |-> s, event |-> e, cur |-> s]
IsTransitionCall(c) == c.fn \in {"stateLeft", "stateEntered"}

(***************************************************************************)
(* Claims on the engine's calls.                                           *)
(***************************************************************************)
\* C1: processEvent of a name that is not in the registry raises ValueError,
\* leaves curState (and the rest of the object) as it was and calls no
\* handler method.
C1_UnregisteredEventRaises ==
    (Called("processEvent") /\ ~Last.known) =>
        /\ Last.err = "ValueError"
        /\ curState = Last.preState
        /\ running = Last.preRunning
        /\ Last.sameTable /\ Last.sameEvents /\ Last.sameNum
        /\ calls = <<>>

C1_Witness ==
    /\ Called("processEvent") /\ ~Last.known /\ Last.err = "ValueError"
    /\ running /\ curState = 1 /\ InList("a", events)

\* C2: a processEvent or gotoState that changes curState or calls stateLeft
\* or stateEntered makes exactly two handler calls: stateLeft(s, e) while
\* curState is still s, then stateEntered(t, e) once curState is t; and a
\* gotoState to a state below numstates, or a processEvent whose lookup
\* finds such a state, is such a transition.
C2_LeaveMutateEnter ==
    (Called("processEvent") \/ Called("gotoState")) =>
        LET s == Last.preState
            e == Last.event
            moved == \/ curState # s
                     \/ \E i \in 1..Len(calls) : IsTransitionCall(calls[i])
            target == IF Last.op = "gotoState" THEN Last.arg ELSE Last.found.val
            due == /\ Last.err = "none"
                   /\ target < Last.preNum
                   /\ Last.op = "processEvent" => Last.known /\ target >= 0
        IN  /\ moved => calls = <<Left(s, e), Entered(curState, e)>>
            /\ due => moved /\ curState = target

C2_Witness ==
    /\ Called("processEvent")
    /\ Last.preState = 0 /\ curState = 1
    /\ calls = <<Left(0, "a"), Entered(1, "a")>>

\* C3: start() on a stopped engine sets curState to 0 and the running flag,
\* and calls stateEntered(0, "no_event") once and nothing else.
C3_StartEntersStateZero ==
    Called("start") =>
        /\ curState = 0
        /\ running
        /\ calls = <<Entered(0, "no_event")>>

C3_Witness ==
    Called("start") /\ ~Last.preRunning /\ Last.preState = -1 /\ running

\* C5: on a running engine, processEvent of a registered event other than
\* "no_event" that has no transition from the current state leaves curState
\* as it was and calls stateEvent(curState, event) once, whatever the debug
\* flag.
C5_InStateEventReachesHandler ==
    (/\ Called("processEvent") /\ Last.known /\ Last.event # "no_event"
     /\ Last.preRunning /\ Last.preState >= 0
     /\ Last.found.err = "none" /\ Last.found.val < 0) =>
        /\ curState = Last.preState
        /\ calls = <<InState(Last.preState, Last.event)>>

\* C10: after any calls of start, stop, processEvent, gotoState,
\* addTransition and setTransitionTable the engine is either stopped with
\* curState = -1 or running with curState a state below numstates.
C10_ModeMatchesState ==
    \/ ~running /\ curState = -1
    \/ running /\ 0 <= curState /\ curState < numstates


(***************************************************************************)
(* Claims on the registry and the adapters (under RegSpec).                *)
(***************************************************************************)
\* the adapter calls stop() makes: each button detached, each timer detached
\* and cancelled
RECURSIVE Detachment(_, _)
Detachment(bs, ts) ==
    IF bs # <<>> THEN <<<<Head(bs), "setHandler", "None">>>> \o Detachment(Tail(bs), ts)
    ELSE IF ts # <<>>
    THEN <<<<Head(ts), "setHandler", "None">>, <<Head(ts), "cancel", "">>>>
         \o Detachment(bs, Tail(ts))
    ELSE <<>>

\* C4: stop() on a running engine in state s calls stateLeft(s, "no_event")
\* once and nothing else of the handler; stop() on a stopped engine calls
\* nothing of the handler; either way it clears the handler of every attached
\* button and timer, cancels every attached timer, and leaves the engine not
\* running with curState = -1.
C4_StopLeavesAndDetaches ==
    Called("stop") =>
        /\ calls = IF Last.preRunning
                   THEN <<Left(Last.preState, "no_event")>>
                   ELSE <<>>
        /\ acalls = Detachment(buttons, timers)
        /\ \A i \in 1..Len(buttons) : attached[buttons[i]] = "None"
        /\ \A i \in 1..Len(timers) :
               attached[timers[i]] = "None" /\ cancelled[timers[i]]
        /\ ~running
        /\ curState = -1

C4_Witness ==
    /\ Called("stop") /\ Last.preRunning /\ Last.preState = 1
    /\ buttons # <<>> /\ timers # <<>>
    /\ calls = <<Left(1, "no_event")>>

\* C6: addButton, addTimer and addCustomEvent raise ValueError when a name
\* they would register is in the registry already, whoever registered it,
\* and then leave the registry, the lists of buttons and timers and every
\* adapter's handler as they were.
C6_DuplicateNameRejected ==
    (/\ Called("addButton") \/ Called("addTimer") \/ Called("addCustomEvent")
     /\ Last.known) =>
        /\ Last.err = "ValueError"
        /\ Last.sameEvents
        /\ Last.sameAdapters
        /\ acalls = <<>>

\* a button refused because of a custom event registered before it
C6_Witness ==
    /\ Called("addButton") /\ Last.known /\ Last.err = "ValueError"
    /\ InList("b_release", events) /\ ~InList("b_press", events)
    /\ buttons = <<>> /\ attached[Last.arg] = "app"


(***************************************************************************)
(* Claims on the transition table (under TableSpec).                       *)
(***************************************************************************)
\* C7: the table built by addTransition calls and the table set by one
\* setTransitionTable call with the same rows give the same getTransition
\* outcome for every state below numstates and every registered event.
C7_SameLookupEitherWay ==
    (Called("addTransition") /\ Last.err = "none") =>
        \A s \in 0..numstates - 1 : \A i \in 1..Len(events) :
            getTransition(Self, s, events[i])
                = getTransition(SetAtOnce, s, events[i])


(***************************************************************************)
(* Claims on the fan controller's table (under FanSpec).                   *)
(***************************************************************************)
\* the test has made exactly these engine calls, in this order
Processed(evs) ==
    /\ Len(hist) = Len(evs) + 1
    /\ hist[1].op = "start"
    /\ \A i \in 1..Len(evs) :
           hist[i + 1].op = "processEvent" /\ hist[i + 1].event = evs[i]

\* C8: with the fan controller's table, start() and then processEvent of
\* fan1_on, both_fans_on and critical_temp end in state 3, and the handler
\* calls after the first stateEntered(0) are stateLeft(0), stateEntered(1),
\* stateLeft(1), stateEntered(2), stateLeft(2), stateEntered(3).
C8_ScenarioA ==
    Processed(<<"fan1_on", "both_fans_on", "critical_temp">>) =>
        /\ curState = 3
        /\ calls = <<Entered(0, "no_event"),
                     Left(0, "fan1_on"), Entered(1, "fan1_on"),
                     Left(1, "both_fans_on"), Entered(2, "both_fans_on"),
                     Left(2, "critical_temp"), Entered(3, "critical_temp")>>

C8_Witness ==
    /\ Processed(<<"fan1_on", "both_fans_on", "critical_temp">>)
    /\ curState = 3 /\ running /\ Len(calls) = 7


(***************************************************************************)
(* Claims on run() (under RunSpec).                                        *)
(***************************************************************************)
\* the positions in hist of the calls of op
At(op) == {i \in 1..Len(hist) : hist[i].op = op}
\* the positions in calls of the handler calls of fn
CallsOf(fn) == {i \in 1..Len(calls) : calls[i].fn = fn}
\* the loop condition is about to be evaluated again, after an iteration
IterationEnded == pc = "while" /\ Len(hist) > 1 /\ hist[1].op = "while"

\* C9: in every iteration of run(), with or without a delay, stateDo is
\* called once, with the state the engine is in at that time, and after it
\* processEvent("no_event") is called once, as the last statement before
\* the loop condition is evaluated again.
C9_OneDoThenNoEvent ==
    IterationEnded =>
        /\ Cardinality(At("stateDo")) = 1
        /\ Cardinality(At("processEvent")) = 1
        /\ \A i \in At("stateDo") : \A j \in At("processEvent") : i < j
        /\ hist[Len(hist)].op = "processEvent"
        /\ hist[Len(hist)].event = "no_event"
        /\ Cardinality(CallsOf("stateDo")) = 1
        /\ \A i \in CallsOf("stateDo") :
               i = 1 /\ calls[i].state = calls[i].cur /\ calls[i].state = hist[1].preState

\* an iteration without delay whose processEvent("no_event") made a transition
C9_Witness ==
    /\ IterationEnded
    /\ delay = 0
    /\ hist[Len(hist)].preState = MaxStates - 1 /\ curState = 0
    /\ calls[Len(calls)] = Entered(0, "no_event")


(***************************************************************************)
(* Claims on the engine's error handling (under Spec).                     *)
(***************************************************************************)
\* C11: on a running engine, gotoState(target, event) with target below 0 or
\* not below numstates raises, calls no handler method and leaves curState as
\* it was.
C11_OutOfRangeGotoRejected ==
    (/\ Called("gotoState") /\ Last.preRunning
     /\ (Last.arg < 0 \/ Last.arg >= Last.preNum)) =>
        /\ Last.err # "none"
        /\ calls = <<>>
        /\ curState = Last.preState

\* C12: setTransitionTable with a number of rows other than numstates
\* raises and leaves numstates and the table as they were.
C12_RowCountMismatchRejected ==
    (Called("setTransitionTable") /\ Last.arg # Last.preNum) =>
        /\ Last.err # "none"
        /\ Last.sameNum
        /\ Last.sameTable

\* C13: setTransitionTable with a table that names an event that is not in
\* the registry raises and leaves the table and numstates as they were.
C13_UnregisteredTableRejected ==
    (Called("setTransitionTable") /\ Last.event # "") =>
        /\ Last.err # "none"
        /\ Last.sameTable
        /\ Last.sameNum

\* C14: addTransition with a list of names whose last one is not in the
\* registry raises and leaves the table as it was, whatever registered
\* names come before it in the list.
C14_UnregisteredNameAddsNothing ==
    (Called("addTransition") /\ ~Last.known) =>
        /\ Last.err # "none"
        /\ Last.sameTable

\* the row of state s never had a transition
NoTransitionFrom(s) ==
    /\ 0 <= s /\ s < Len(transitions)
    /\ transitions[s + 1].items = <<>>

\* C15: on a running engine in a state whose row never had a transition,
\* processEvent of a registered event raises nothing and leaves curState as
\* it was.
C15_EmptyRowIsValid ==
    (/\ Called("processEvent") /\ Last.known
     /\ Last.preRunning /\ NoTransitionFrom(Last.preState)) =>
        /\ Last.err = "none"
        /\ curState = Last.preState


(***************************************************************************)
(* Claims on the registry as a whole (under RegSpec).                      *)
(***************************************************************************)
\* C16: after any addButton, addTimer and addCustomEvent calls, refused or
\* not, no name is in the registry twice and "no_event" is in it.
C16_RegistryNamesUnique ==
    /\ \A i, j \in 1..Len(events) : events[i] = events[j] => i = j
    /\ InList("no_event", events)

\* a timer refused after a button, a timer and a custom event were accepted
C16_Witness ==
    /\ Called("addTimer") /\ Last.known /\ Last.err = "ValueError"
    /\ Len(events) = 5
    /\ InList("b_press", events) /\ InList("c", events)
    /\ Len(timers) = 1


(***************************************************************************)
(* Claims on the rows of the table (under TableSpec).                      *)
(***************************************************************************)
\* C18: in every table built by addTransition calls no row holds two entries
\* for the same event name.
C18_OneEntryPerEvent ==
    \A r \in 1..Len(transitions) :
        LET items == transitions[r].items
        IN  \A i, j \in 1..Len(items) : items[i][1] = items[j][1] => i = j


(***************************************************************************)
(* Claims on processEvent's choice between a transition and an in-state    *)
(* event (under Spec).                                                     *)
(***************************************************************************)
\* C19: when the row of curState holds an entry for the event, processEvent
\* never calls stateEvent, and (the entry's target being a state below
\* numstates) it makes the transition to that target: stateLeft, then the
\* new curState, then stateEntered.
C19_TransitionBeforeInStateEvent ==
    (/\ Called("processEvent") /\ Last.known
     /\ Last.found.err = "none" /\ Last.found.val >= 0) =>
        /\ \A i \in 1..Len(calls) : calls[i].fn # "stateEvent"
        /\ Last.found.val < Last.preNum =>
               /\ calls = <<Left(Last.preState, Last.event),
                            Entered(Last.found.val, Last.event)>>
               /\ curState = Last.found.val

\* with debug on, where an event without transition would reach stateEvent
C19_Witness ==
    /\ Called("processEvent") /\ debug /\ running
    /\ Last.event = "a" /\ Last.preState = 0 /\ Last.found.val = 1
    /\ calls = <<Left(0, "a"), Entered(1, "a")>>

\* C20: processEvent("no_event") in a state whose row holds no entry for
\* "no_event" leaves curState, the running flag, the registry, the table,
\* numstates and the adapters as they were, calls no handler method and
\* logs nothing; where the lookup itself raises nothing, the call raises
\* nothing.
C20_NoEventWithoutTransition ==
    (Called("processEvent") /\ Last.event = "no_event" /\ Last.found.val < 0) =>
        /\ curState = Last.preState
        /\ running = Last.preRunning
        /\ Last.sameEvents /\ Last.sameTable /\ Last.sameNum /\ Last.sameAdapters
        /\ calls = <<>>
        /\ logs = <<>>
        /\ Last.found.err = "none" => Last.err = "none"

\* with debug on, where any other event without transition reaches stateEvent
C20_Witness ==
    /\ Called("processEvent") /\ Last.event = "no_event"
    /\ Last.found.err = "none" /\ Last.found.val < 0
    /\ debug /\ Last.preRunning /\ Last.preState = 0
    /\ InList("a", events)
    /\ calls = <<>> /\ Last.err = "none"


(***************************************************************************)
(* Claims on transitions under interrupts (under AsyncSpec).               *)
(***************************************************************************)
\* C17: with button and timer callbacks arriving while run() is inside a
\* transition, every stateLeft(s, e) in the sequence of handler calls is
\* followed at once by the stateEntered(t, e) of the same transition, and
\* s is the state the transition was looked up for: the table leads from s
\* to t on e.
C17_TransitionsNotInterleaved ==
    \A i \in 1..Len(calls) :
        (calls[i].fn = "stateLeft" /\ i < Len(calls)) =>
            /\ calls[i + 1].fn = "stateEntered"
            /\ calls[i + 1].event = calls[i].event
            /\ getTransition(Self, calls[i].state, calls[i].event).val
                   = calls[i + 1].state


(***************************************************************************)
(* Claims on the logger (under Spec).                                      *)
(***************************************************************************)
\* C21: an engine constructed with debug = False makes no call of the
\* logger, whatever method is called on it.
C21_LogsOnlyUnderDebug ==
    ~debug => logs = <<>>


(***************************************************************************)
(* Claims on the fan controller's program (under FanRunSpec).              *)
(***************************************************************************)
\* the distance between two states
Dist(a, b) == IF a < b THEN b - a ELSE a - b
\* the state that is k steps from state a towards state b
Towards(a, b, k) == IF a < b THEN a + k ELSE a - k
\* update_system has returned, and run() is about to go on
Updated == pc = "no_event" /\ hist[1].op = "update_system"

\* C22: when update_system returns, curState is 0 for a reading below 30, 1
\* for 30..39, 2 for 40..49 and 3 from 50 on, and the handler calls it made
\* are one stateLeft/stateEntered pair per state on the way from the state
\* it was called in, each pair from a state to the next one in this
\* direction.
C22_UpdateReachesBand ==
    Updated =>
        LET t == hist[1].arg
            pre == hist[1].preState
            tr == Tail(calls)
        IN  /\ t < FAN1_THRESHOLD => curState = 0
            /\ FAN1_THRESHOLD <= t /\ t < FAN2_THRESHOLD => curState = 1
            /\ FAN2_THRESHOLD <= t /\ t < CRITICAL_THRESHOLD => curState = 2
            /\ CRITICAL_THRESHOLD <= t => curState = 3
            /\ Len(tr) = 2 * Dist(pre, curState)
            /\ \A k \in 1..Dist(pre, curState) :
                   /\ tr[2 * k - 1]
                          = Left(Towards(pre, curState, k - 1), tr[2 * k].event)
                   /\ tr[2 * k]
                          = Entered(Towards(pre, curState, k), tr[2 * k].event)

\* from idle to critical on a reading of 50
C22_Witness ==
    /\ Updated /\ hist[1].arg = CRITICAL_THRESHOLD /\ hist[1].preState = 0
    /\ curState = 3 /\ Len(calls) = 7

\* C26: in update_system every loop iteration made so far has moved curState
\* by one state towards the desired state, and there are at most 3 of them:
\* the loops end after at most 3 transitions, without an exception.
C26_LoopsMakeProgress ==
    (pc \in {"up", "down", "no_event", "raised"} /\ hist[1].op = "update_system") =>
        LET pre == hist[1].preState
            desired == desired_state(hist[1].arg)
            iterations == Len(hist) - 1
        IN  /\ pc # "raised"
            /\ iterations <= 3
            /\ iterations = Dist(pre, curState)
            /\ Dist(pre, curState) + Dist(curState, desired) = Dist(pre, desired)
            /\ \A i \in 2..Len(hist) :
                   hist[i].preState = Towards(pre, desired, i - 2)

\* the downward loop, from critical to idle
C26_Witness ==
    /\ Updated /\ Len(hist) = 4
    /\ hist[1].preState = 3 /\ curState = 0
    /\ \A i \in 2..4 : hist[i].event = "temp_drop"

StoppedInRun == pc # "idle" /\ ~running

\* C23: once stop() was called from stateDo, the rest of the iteration of
\* run(), its processEvent("no_event") included, leaves curState at -1 and
\* calls no handler method: the last handler call stays the stateLeft of
\* stop().
C23_NothingAfterStop ==
    StoppedInRun =>
        /\ curState = -1
        /\ calls # <<>> =>
               /\ calls[Len(calls)].fn = "stateLeft"
               /\ calls[Len(calls)].event = "no_event"
               /\ calls[Len(calls)].state >= 0

\* C24: once stop() was called during run(), run() does not end by an
\* exception, and when it has returned the engine is stopped: not running,
\* with curState = -1.
C24_RunReturnsStopped ==
    StoppedInRun =>
        /\ pc # "raised"
        /\ pc = "returned" => ~running /\ curState = -1


(***************************************************************************)
(* Claims on the handler's trace in sequential use (under SeqSpec).        *)
(***************************************************************************)
\* the stateEntered and stateLeft calls the handler received, in order
Trace == SelectSeq(calls, IsTransitionCall)

\* C25: from start() on, the stateEntered and stateLeft calls begin with
\* stateEntered(0, "no_event") and alternate, every stateLeft names the
\* state of the stateEntered just before it, and after stop() the last of
\* them is a stateLeft.
C25_TraceAlternates ==
    pc \in {"started", "stopped"} =>
        /\ Trace # <<>>
        /\ Trace[1] = Entered(0, "no_event")
        /\ \A i \in 2..Len(Trace) :
               /\ Trace[i].fn # Trace[i - 1].fn
               /\ Trace[i].fn = "stateLeft" => Trace[i].state = Trace[i - 1].state
        /\ pc = "stopped" => Trace[Len(Trace)].fn = "stateLeft"

\* a stop after a transition and an in-state event
C25_Witness ==
    /\ pc = "stopped"
    /\ Trace = <<Entered(0, "no_event"), Left(0, "a"), Entered(1, "a"),
                 Left(1, "no_event")>>
    /\ Len(calls) = 5

====
